---- MODULE Spec2Model ----
(***************************************************************************)
(* Model of src/app.py: the launcher that checks the Node.js toolchain,    *)
(* runs "npm install" and "npm run build", then starts "npm start" and     *)
(* relays its output from a daemon thread while the main thread waits.     *)
(*                                                                         *)
(* The main thread is a program counter pc over the statements of main,    *)
(* install_node_dependencies, build_application and start_server.  The     *)
(* relay thread (log_output) is logpc.  External processes are proc.       *)
(* A KeyboardInterrupt may be delivered to the main thread at any          *)
(* statement.  Message texts are kept without their leading emoji.         *)
(***************************************************************************)
EXTENDS Integers, Sequences, FiniteSets, TLC

\* ---------------------------------------------------------------- bounds
MaxLines == 2      \* lines the server process writes at most
MaxIntr == 2       \* interruption signals delivered at most

\* ------------------------------------------------------------ value sets
Absent == "<absent>"
EnvKeys == {"PORT", "NODE_ENV", "HOME"}
EnvVals == {Absent, "3000", "development", "/root"}
\* ambient environments: each variable is unset or holds a foreign value
AmbientEnvs == { e \in [EnvKeys -> EnvVals] :
                   /\ e["PORT"] \in {Absent, "3000"}
                   /\ e["NODE_ENV"] \in {Absent, "development"}
                   /\ e["HOME"] \in {Absent, "/root"} }

Tools == {"node", "npm"}
ToolStates == {"ok", "notfound", "broken"}

Procs == {"node", "npm", "install", "build", "server"}
SetupProcs == {"node", "npm", "install", "build"}
ExitCodes == {0, 1, 2}     \* exit statuses a command may return by itself
NoCode == -1               \* no exit status yet (returncode is None)
SigTerm == -15             \* Popen.returncode of a child ended by SIGTERM
SigKill == -9              \* Popen.returncode of a child ended by SIGKILL

\* a line of server output is a sequence of characters, terminator included
LineSet == { <<"a", "\n">>, <<" ", "b", " ", "\n">> }
White == {" ", "\n"}

VARIABLES
    pc,         \* statement the main thread is at
    proc,       \* external processes: state and exit status
    spawns,     \* how many times each command was spawned
    toolState,  \* what the machine has installed: per tool ok/notfound/broken
    environ,    \* os.environ of the launcher
    env,        \* the local variable `env` of start_server
    srvEnv,     \* the environment the server process was started with
    process,    \* the local variable `process` of start_server
    ignoresTerm,\* whether the server process ignores SIGTERM
    termPending,\* a SIGTERM was sent to the server and not yet acted upon
    termReq,    \* processes that were sent a termination request
    written,    \* lines the server has written so far
    pipe,       \* lines in the stdout pipe, written and not yet read
    logpc,      \* relay thread: "none", "run", "done", "killed"
    out,        \* the launcher's own standard output
    reported,   \* tools named in the missing-toolchain message
    intr,       \* interruption signals delivered so far
    exitCode,   \* exit status of the launcher, NoCode while it runs
    exitVia     \* the statement through which the launcher exited

vars == <<pc, proc, spawns, toolState, environ, env, srvEnv, process, ignoresTerm,
          termPending, termReq, written, pipe, logpc, out, reported, intr,
          exitCode, exitVia>>

Unbound == "<unbound>"

\* ------------------------------------------------------------- helpers
\* one printed line of the launcher's output
Msg(m) == [msg |-> m, cmd |-> <<>>, code |-> NoCode, text |-> <<>>]

\* f"... {e}" for a CalledProcessError e: names the command and its status
ErrMsg(m, c, k) == [msg |-> m, cmd |-> c, code |-> k, text |-> <<>>]

RECURSIVE LStrip(_)
LStrip(s) == IF s = <<>> THEN <<>>
             ELSE IF Head(s) \in White THEN LStrip(Tail(s)) ELSE s

RECURSIVE RStrip(_)
RStrip(s) == IF s = <<>> THEN <<>>
             ELSE IF s[Len(s)] \in White THEN RStrip(SubSeq(s, 1, Len(s) - 1))
             ELSE s

\* str.strip(): drops leading and trailing whitespace
Strip(s) == RStrip(LStrip(s))

\* print(f"[SERVER] {line.strip()}")
Relayed(line) == [msg |-> "[SERVER] ", cmd |-> <<>>, code |-> NoCode,
                  text |-> Strip(line)]

\* variant: env.setdefault(k, v), an ambient value wins
EnvSetDefault(e, k, v) == IF e[k] = Absent THEN [e EXCEPT ![k] = v] ELSE e

\* env[k] = v
EnvSet(e, k, v) == [e EXCEPT ![k] = v]

\* env = os.environ.copy(); env["NODE_ENV"] = ...; env["PORT"] = ...
ServerEnv(e) == EnvSet(EnvSet(e, "NODE_ENV", "production"), "PORT", "7860")

Running(p) == proc[p].st = "running"
Exited(p) == proc[p].st = "exited"

Spawned(p) == /\ proc' = [proc EXCEPT ![p] = [st |-> "running", code |-> NoCode]]
              /\ spawns' = [spawns EXCEPT ![p] = @ + 1]

Reaped(p, k) == proc' = [proc EXCEPT ![p] = [st |-> "exited", code |-> k]]

\* the interpreter exits: daemon threads are abandoned where they are
ExitWith(k, via) ==
    /\ pc' = "exited"
    /\ exitCode' = k
    /\ exitVia' = via
    /\ logpc' = IF logpc = "run" THEN "killed" ELSE logpc

\* statements of start_server inside the try block (lines 43-69)
TryPcs == {"s_popen", "s_bind", "s_thread", "s_p64", "s_p65", "s_p66", "s_wait"}
\* statements of the except KeyboardInterrupt handler (lines 72-74)
HandlerPcs == {"h_print", "h_term", "h_wait"}

\* ---------------------------------------------------------------- Init
Init ==
    /\ pc = "m_banner"
    /\ proc = [p \in Procs |-> [st |-> "none", code |-> NoCode]]
    /\ spawns = [p \in Procs |-> 0]
    /\ toolState \in [Tools -> ToolStates]
    /\ environ \in AmbientEnvs
    /\ env = [k \in EnvKeys |-> Absent]
    /\ srvEnv = [k \in EnvKeys |-> Absent]
    /\ process = Unbound
    /\ ignoresTerm = FALSE
    /\ termPending = FALSE
    /\ termReq = {}
    /\ written = <<>>
    /\ pipe = <<>>
    /\ logpc = "none"
    /\ out = <<>>
    /\ reported = {}
    /\ intr = 0
    /\ exitCode = NoCode
    /\ exitVia = "none"

\* ------------------------------------------------------ main: lines 81-90
main_banner ==
    /\ pc = "m_banner"
    /\ out' = out \o << Msg("Emotional Codex Companion - Hugging Face Spaces"),
                        Msg("==================================================") >>
    /\ pc' = "m_node"
    /\ UNCHANGED <<proc, spawns, toolState, environ, env, srvEnv, process,
                   ignoresTerm, termPending, termReq, written, pipe, logpc,
                   reported, intr, exitCode, exitVia>>

\* except (CalledProcessError, FileNotFoundError): print(...); sys.exit(1)
ToolchainFail ==
    /\ out' = Append(out, Msg("Node.js and npm are required but not found"))
    /\ reported' = {"node", "npm"}
    /\ ExitWith(1, "toolchain")

\* subprocess.run(["node", "--version"], ...) starts: spawn or FileNotFoundError
main_node_spawn ==
    /\ pc = "m_node"
    /\ IF toolState["node"] = "notfound"
       THEN /\ ToolchainFail
            /\ UNCHANGED <<proc, spawns>>
       ELSE /\ Spawned("node")
            /\ pc' = "m_node_run"
            /\ UNCHANGED <<out, reported, exitCode, exitVia, logpc>>
    /\ UNCHANGED <<toolState, environ, env, srvEnv, process, ignoresTerm,
                   termPending, termReq, written, pipe, intr>>

\* node --version exits; check=True raises CalledProcessError on non-zero
main_node_exit ==
    /\ pc = "m_node_run"
    /\ \E k \in ExitCodes :
        /\ (k = 0) <=> (toolState["node"] = "ok")
        /\ Reaped("node", k)
        /\ IF k = 0
           THEN /\ pc' = "m_npm"
                /\ UNCHANGED <<out, reported, exitCode, exitVia, logpc>>
           ELSE ToolchainFail
    /\ UNCHANGED <<spawns, toolState, environ, env, srvEnv, process, ignoresTerm,
                   termPending, termReq, written, pipe, intr>>

main_npm_spawn ==
    /\ pc = "m_npm"
    /\ IF toolState["npm"] = "notfound"
       THEN /\ ToolchainFail
            /\ UNCHANGED <<proc, spawns>>
       ELSE /\ Spawned("npm")
            /\ pc' = "m_npm_run"
            /\ UNCHANGED <<out, reported, exitCode, exitVia, logpc>>
    /\ UNCHANGED <<toolState, environ, env, srvEnv, process, ignoresTerm,
                   termPending, termReq, written, pipe, intr>>

\* variant: the version query without check=True, its status is ignored
main_npm_exit_nocheck ==
    /\ pc = "m_npm_run"
    /\ \E k \in ExitCodes :
        /\ (k = 0) <=> (toolState["npm"] = "ok")
        /\ Reaped("npm", k)
        /\ pc' = "i_print"
    /\ UNCHANGED <<out, reported, exitCode, exitVia, logpc>>
    /\ UNCHANGED <<spawns, toolState, environ, env, srvEnv, process, ignoresTerm,
                   termPending, termReq, written, pipe, intr>>

main_npm_exit ==
    /\ pc = "m_npm_run"
    /\ \E k \in ExitCodes :
        /\ (k = 0) <=> (toolState["npm"] = "ok")
        /\ Reaped("npm", k)
        /\ IF k = 0
           THEN /\ pc' = "i_print"
                /\ UNCHANGED <<out, reported, exitCode, exitVia, logpc>>
           ELSE ToolchainFail
    /\ UNCHANGED <<spawns, toolState, environ, env, srvEnv, process, ignoresTerm,
                   termPending, termReq, written, pipe, intr>>

\* an exception nobody catches: traceback, exit status 1
Uncaught == ExitWith(1, "uncaught_exception")

\* --------------------------------- install_node_dependencies: lines 14-22
install_print ==
    /\ pc = "i_print"
    /\ out' = Append(out, Msg("Installing Node.js dependencies..."))
    /\ pc' = "i_spawn"
    /\ UNCHANGED <<proc, spawns, toolState, environ, env, srvEnv, process,
                   ignoresTerm, termPending, termReq, written, pipe, logpc,
                   reported, intr, exitCode, exitVia>>

\* variant: npm install started with Popen and not waited for
install_spawn_nowait ==
    /\ pc = "i_spawn"
    /\ Spawned("install")
    /\ pc' = "b_print"
    /\ UNCHANGED <<exitCode, exitVia, logpc>>
    /\ UNCHANGED <<toolState, environ, env, srvEnv, process, ignoresTerm,
                   termPending, termReq, written, pipe, out, reported, intr>>

\* subprocess.run(["npm", "install"], check=True, cwd="."): the spawn, or an
\* OSError (npm gone since the check) that only CalledProcessError would catch
install_spawn ==
    /\ pc = "i_spawn"
    /\ \/ /\ Spawned("install")
          /\ pc' = "i_run"
          /\ UNCHANGED <<exitCode, exitVia, logpc>>
       \/ /\ Uncaught
          /\ UNCHANGED <<proc, spawns>>
    /\ UNCHANGED <<toolState, environ, env, srvEnv, process, ignoresTerm,
                   termPending, termReq, written, pipe, out, reported, intr>>

\* variant: the except branch prints and falls through, without sys.exit
install_exit_noexit ==
    /\ pc = "i_run"
    /\ \E k \in ExitCodes :
        /\ Reaped("install", k)
        /\ out' = Append(out, IF k = 0
                              THEN Msg("Dependencies installed successfully")
                              ELSE ErrMsg("Failed to install dependencies: ",
                                          <<"npm", "install">>, k))
        /\ pc' = "b_print"
    /\ UNCHANGED <<exitCode, exitVia, logpc>>
    /\ UNCHANGED <<spawns, toolState, environ, env, srvEnv, process, ignoresTerm,
                   termPending, termReq, written, pipe, reported, intr>>

\* variant: the success message of line 19 is left out
install_exit_silent ==
    /\ pc = "i_run"
    /\ \E k \in ExitCodes :
        /\ Reaped("install", k)
        /\ IF k = 0
           THEN /\ pc' = "b_print"
                /\ UNCHANGED <<out, exitCode, exitVia, logpc>>
           ELSE /\ out' = Append(out, ErrMsg("Failed to install dependencies: ",
                                             <<"npm", "install">>, k))
                /\ ExitWith(1, "install_fail")
    /\ UNCHANGED <<spawns, toolState, environ, env, srvEnv, process, ignoresTerm,
                   termPending, termReq, written, pipe, reported, intr>>

\* npm install exits with k: success message, or the except branch
\* print(f"Failed to install dependencies: {e}"); sys.exit(1)
install_exit ==
    /\ pc = "i_run"
    /\ \E k \in ExitCodes :
        /\ Reaped("install", k)
        /\ IF k = 0
           THEN /\ out' = Append(out, Msg("Dependencies installed successfully"))
                /\ pc' = "b_print"
                /\ UNCHANGED <<exitCode, exitVia, logpc>>
           ELSE /\ out' = Append(out, ErrMsg("Failed to install dependencies: ",
                                             <<"npm", "install">>, k))
                /\ ExitWith(1, "install_fail")
    /\ UNCHANGED <<spawns, toolState, environ, env, srvEnv, process, ignoresTerm,
                   termPending, termReq, written, pipe, reported, intr>>

\* ----------------------------------------- build_application: lines 24-32
build_print ==
    /\ pc = "b_print"
    /\ out' = Append(out, Msg("Building React application..."))
    /\ pc' = "b_spawn"
    /\ UNCHANGED <<proc, spawns, toolState, environ, env, srvEnv, process,
                   ignoresTerm, termPending, termReq, written, pipe, logpc,
                   reported, intr, exitCode, exitVia>>

build_spawn ==
    /\ pc = "b_spawn"
    /\ \/ /\ Spawned("build")
          /\ pc' = "b_run"
          /\ UNCHANGED <<exitCode, exitVia, logpc>>
       \/ /\ Uncaught
          /\ UNCHANGED <<proc, spawns>>
    /\ UNCHANGED <<toolState, environ, env, srvEnv, process, ignoresTerm,
                   termPending, termReq, written, pipe, out, reported, intr>>

\* variant: the except branch ends with sys.exit() and no status
build_exit_exit0 ==
    /\ pc = "b_run"
    /\ \E k \in ExitCodes :
        /\ Reaped("build", k)
        /\ IF k = 0
           THEN /\ out' = Append(out, Msg("Application built successfully"))
                /\ pc' = "s_print"
                /\ UNCHANGED <<exitCode, exitVia, logpc>>
           ELSE /\ out' = Append(out, ErrMsg("Failed to build application: ",
                                             <<"npm", "run", "build">>, k))
                /\ ExitWith(0, "build_fail")
    /\ UNCHANGED <<spawns, toolState, environ, env, srvEnv, process, ignoresTerm,
                   termPending, termReq, written, pipe, reported, intr>>

\* npm run build exits with k: success message, or the except branch
\* print(f"Failed to build application: {e}"); sys.exit(1)
build_exit ==
    /\ pc = "b_run"
    /\ \E k \in ExitCodes :
        /\ Reaped("build", k)
        /\ IF k = 0
           THEN /\ out' = Append(out, Msg("Application built successfully"))
                /\ pc' = "s_print"
                /\ UNCHANGED <<exitCode, exitVia, logpc>>
           ELSE /\ out' = Append(out, ErrMsg("Failed to build application: ",
                                             <<"npm", "run", "build">>, k))
                /\ ExitWith(1, "build_fail")
    /\ UNCHANGED <<spawns, toolState, environ, env, srvEnv, process, ignoresTerm,
                   termPending, termReq, written, pipe, reported, intr>>

\* ---------------------------------------------- start_server: lines 34-77
start_print ==
    /\ pc = "s_print"
    /\ out' = Append(out, Msg("Starting Emotional Codex Companion server..."))
    /\ pc' = "s_env"
    /\ UNCHANGED <<proc, spawns, toolState, environ, env, srvEnv, process,
                   ignoresTerm, termPending, termReq, written, pipe, logpc,
                   reported, intr, exitCode, exitVia>>

\* lines 39-41
start_env ==
    /\ pc = "s_env"
    /\ env' = ServerEnv(environ)
    /\ pc' = "s_popen"
    /\ UNCHANGED <<proc, spawns, toolState, environ, srvEnv, process, ignoresTerm,
                   termPending, termReq, written, pipe, logpc, out, reported,
                   intr, exitCode, exitVia>>

\* except Exception as e: print(f"Server error: {e}"); sys.exit(1)
ServerError(m) ==
    /\ out' = Append(out, Msg(m))
    /\ ExitWith(1, "server_error")

\* variant: the spawn error is printed and swallowed, main ends normally
start_popen_swallow ==
    /\ pc = "s_popen"
    /\ \/ /\ Spawned("server")
          /\ srvEnv' = env
          /\ \E ig \in BOOLEAN : ignoresTerm' = ig
          /\ pc' = "s_bind"
          /\ UNCHANGED <<out, exitCode, exitVia, logpc>>
       \/ /\ out' = Append(out, Msg("Server error: [Errno 2] No such file or directory: 'npm'"))
          /\ ExitWith(0, "server_error")
          /\ UNCHANGED <<proc, spawns, ignoresTerm, srvEnv>>
    /\ UNCHANGED <<toolState, environ, env, process, termPending, termReq,
                   written, pipe, reported, intr>>

\* subprocess.Popen(["npm", "start"], env=env, ...): the child is started
\* (the handle is not yet stored in `process`), or the spawn raises OSError
start_popen ==
    /\ pc = "s_popen"
    /\ \/ /\ Spawned("server")
          /\ srvEnv' = env
          /\ \E ig \in BOOLEAN : ignoresTerm' = ig
          /\ pc' = "s_bind"
          /\ UNCHANGED <<out, exitCode, exitVia, logpc>>
       \/ /\ ServerError("Server error: [Errno 2] No such file or directory: 'npm'")
          /\ UNCHANGED <<proc, spawns, ignoresTerm, srvEnv>>
    /\ UNCHANGED <<toolState, environ, env, process, termPending, termReq,
                   written, pipe, reported, intr>>

\* process = <the Popen object>
start_bind ==
    /\ pc = "s_bind"
    /\ process' = "server"
    /\ pc' = "s_thread"
    /\ UNCHANGED <<proc, spawns, toolState, environ, env, srvEnv, ignoresTerm,
                   termPending, termReq, written, pipe, logpc, out, reported,
                   intr, exitCode, exitVia>>

\* lines 60-62: the daemon relay thread starts, or Thread.start() raises
\* RuntimeError (no thread can be created), caught by except Exception
start_thread ==
    /\ pc = "s_thread"
    /\ \/ /\ logpc' = "run"
          /\ pc' = "s_p64"
          /\ UNCHANGED <<out, exitCode, exitVia>>
       \/ ServerError("Server error: can't start new thread")
    /\ UNCHANGED <<proc, spawns, toolState, environ, env, srvEnv, process,
                   ignoresTerm, termPending, termReq, written, pipe, reported,
                   intr>>

StartedMsg(p) ==
    IF p = "s_p64" THEN Msg("Server started successfully on port 7860")
    ELSE IF p = "s_p65" THEN Msg("Emotional Codex Companion is now running!")
    ELSE Msg("Features: 91+ emotion variants, professional analysis, cultural context")

AfterStarted(p) ==
    IF p = "s_p64" THEN "s_p65" ELSE IF p = "s_p65" THEN "s_p66" ELSE "s_wait"

\* lines 64-66, one print statement per step
start_started ==
    /\ pc \in {"s_p64", "s_p65", "s_p66"}
    /\ out' = Append(out, StartedMsg(pc))
    /\ pc' = AfterStarted(pc)
    /\ UNCHANGED <<proc, spawns, toolState, environ, env, srvEnv, process,
                   ignoresTerm, termPending, termReq, written, pipe, logpc,
                   reported, intr, exitCode, exitVia>>

\* variant: process.poll() in place of process.wait(), it does not block
start_wait_poll ==
    /\ pc = "s_wait"
    /\ ExitWith(0, "server_exit")
    /\ UNCHANGED <<proc, spawns, toolState, environ, env, srvEnv, process,
                   ignoresTerm, termPending, termReq, written, pipe, out,
                   reported, intr>>

\* variant: a restart policy, a server that failed is launched again
start_wait_restart ==
    /\ pc = "s_wait"
    /\ Exited("server")
    /\ IF proc["server"].code # 0 /\ spawns["server"] < 2
       THEN /\ pc' = "s_popen"
            /\ UNCHANGED <<exitCode, exitVia, logpc>>
       ELSE ExitWith(0, "server_exit")
    /\ UNCHANGED <<proc, spawns, toolState, environ, env, srvEnv, process,
                   ignoresTerm, termPending, termReq, written, pipe, out,
                   reported, intr>>

\* line 69: process.wait() returns once the server has exited; its return
\* value is dropped, start_server and main return, the interpreter exits 0
start_wait ==
    /\ pc = "s_wait"
    /\ Exited("server")
    /\ ExitWith(0, "server_exit")
    /\ UNCHANGED <<proc, spawns, toolState, environ, env, srvEnv, process,
                   ignoresTerm, termPending, termReq, written, pipe, out,
                   reported, intr>>

\* line 72
shutdown_print ==
    /\ pc = "h_print"
    /\ out' = Append(out, Msg("\nShutting down server..."))
    /\ pc' = "h_term"
    /\ UNCHANGED <<proc, spawns, toolState, environ, env, srvEnv, process,
                   ignoresTerm, termPending, termReq, written, pipe, logpc,
                   reported, intr, exitCode, exitVia>>

\* variant: the handler only waits, process.terminate() is left out
shutdown_terminate_skip ==
    /\ pc = "h_term"
    /\ IF process = Unbound
       THEN Uncaught
       ELSE /\ pc' = "h_wait"
            /\ UNCHANGED <<exitCode, exitVia, logpc>>
    /\ UNCHANGED <<termReq, termPending>>
    /\ UNCHANGED <<proc, spawns, toolState, environ, env, srvEnv, process,
                   ignoresTerm, written, pipe, out, reported, intr>>

\* variant: the two statements swapped, process.wait() before terminate()
shutdown_terminate_waitfirst ==
    /\ pc = "h_term"
    /\ IF process = Unbound
       THEN Uncaught
       ELSE /\ Exited(process)
            /\ pc' = "h_wait"
            /\ UNCHANGED <<exitCode, exitVia, logpc>>
    /\ UNCHANGED <<termReq, termPending>>
    /\ UNCHANGED <<proc, spawns, toolState, environ, env, srvEnv, process,
                   ignoresTerm, written, pipe, out, reported, intr>>

\* line 73: process.terminate(). With `process` unbound the name lookup
\* raises UnboundLocalError inside the handler, which nothing catches.
\* Popen.terminate() polls first and sends nothing to a child that has exited.
shutdown_terminate ==
    /\ pc = "h_term"
    /\ IF process = Unbound
       THEN /\ Uncaught
            /\ UNCHANGED <<termReq, termPending>>
       ELSE /\ pc' = "h_wait"
            /\ IF Running(process)
               THEN /\ termReq' = termReq \cup {process}
                    /\ termPending' = TRUE
               ELSE UNCHANGED <<termReq, termPending>>
            /\ UNCHANGED <<exitCode, exitVia, logpc>>
    /\ UNCHANGED <<proc, spawns, toolState, environ, env, srvEnv, process,
                   ignoresTerm, written, pipe, out, reported, intr>>

\* line 74: process.wait() returns, the handler ends, main returns, exit 0
shutdown_wait ==
    /\ pc = "h_wait"
    /\ Exited("server")
    /\ ExitWith(0, "shutdown")
    /\ UNCHANGED <<proc, spawns, toolState, environ, env, srvEnv, process,
                   ignoresTerm, termPending, termReq, written, pipe, out,
                   reported, intr>>

\* ------------------------------------------------- the relay thread 55-57
\* for line in process.stdout: print(f"[SERVER] {line.strip()}")
log_output_line ==
    /\ logpc = "run"
    /\ pipe # <<>>
    /\ out' = Append(out, Relayed(Head(pipe)))
    /\ pipe' = Tail(pipe)
    /\ UNCHANGED <<pc, proc, spawns, toolState, environ, env, srvEnv, process,
                   ignoresTerm, termPending, termReq, written, logpc,
                   reported, intr, exitCode, exitVia>>

\* the pipe is drained and its write end closed: the loop ends
log_output_eof ==
    /\ logpc = "run"
    /\ pipe = <<>>
    /\ Exited("server")
    /\ logpc' = "done"
    /\ UNCHANGED <<pc, proc, spawns, toolState, environ, env, srvEnv, process,
                   ignoresTerm, termPending, termReq, written, pipe, out,
                   reported, intr, exitCode, exitVia>>

\* ------------------------------------------------ the server process
server_write ==
    /\ pc # "exited"
    /\ Running("server")
    /\ Len(written) < MaxLines
    /\ \E l \in LineSet :
        /\ written' = Append(written, l)
        /\ pipe' = Append(pipe, l)
    /\ UNCHANGED <<pc, proc, spawns, toolState, environ, env, srvEnv, process,
                   ignoresTerm, termPending, termReq, logpc, out, reported,
                   intr, exitCode, exitVia>>

\* the server exits on its own with status k
server_exit ==
    /\ pc # "exited"
    /\ Running("server")
    /\ \E k \in ExitCodes : Reaped("server", k)
    /\ termPending' = FALSE
    /\ UNCHANGED <<pc, spawns, toolState, environ, env, srvEnv, process,
                   ignoresTerm, termReq, written, pipe, logpc, out, reported,
                   intr, exitCode, exitVia>>

\* the server obeys a pending SIGTERM
server_term_exit ==
    /\ pc # "exited"
    /\ Running("server")
    /\ termPending
    /\ ~ignoresTerm
    /\ Reaped("server", SigTerm)
    /\ termPending' = FALSE
    /\ UNCHANGED <<pc, spawns, toolState, environ, env, srvEnv, process,
                   ignoresTerm, termReq, written, pipe, logpc, out, reported,
                   intr, exitCode, exitVia>>

\* ------------------------------------------------ interruption signal
\* KeyboardInterrupt raised in the main thread. Inside the try block of
\* start_server it is caught (line 71). Anywhere else, the handler included,
\* it is not caught; subprocess.run kills and reaps its child on the way out.
Interrupt ==
    /\ pc # "exited"
    /\ intr < MaxIntr
    /\ intr' = intr + 1
    /\ IF pc \in TryPcs
       THEN /\ pc' = "h_print"
            /\ UNCHANGED <<proc, exitCode, exitVia, logpc>>
       ELSE /\ ExitWith(130, "uncaught_interrupt")
            /\ proc' = [p \in Procs |->
                          IF p \in SetupProcs /\ proc[p].st = "running"
                          THEN [st |-> "exited", code |-> SigKill]
                          ELSE proc[p]]
    /\ UNCHANGED <<spawns, toolState, environ, env, srvEnv, process, ignoresTerm,
                   termPending, termReq, written, pipe, out, reported>>

Next == \/ main_banner \/ main_node_spawn \/ main_node_exit
        \/ main_npm_spawn \/ main_npm_exit
        \/ install_print \/ install_spawn \/ install_exit
        \/ build_print \/ build_spawn \/ build_exit
        \/ start_print \/ start_env \/ start_popen \/ start_bind
        \/ start_thread \/ start_started \/ start_wait
        \/ shutdown_print \/ shutdown_terminate \/ shutdown_wait
        \/ log_output_line \/ log_output_eof
        \/ server_write \/ server_exit \/ server_term_exit
        \/ Interrupt

Spec == Init /\ [][Next]_vars

\* the main thread: every statement of main and the functions it calls
MainStep == \/ main_banner \/ main_node_spawn \/ main_node_exit
            \/ main_npm_spawn \/ main_npm_exit
            \/ install_print \/ install_spawn \/ install_exit
            \/ build_print \/ build_spawn \/ build_exit
            \/ start_print \/ start_env \/ start_popen \/ start_bind
            \/ start_thread \/ start_started \/ start_wait
            \/ shutdown_print \/ shutdown_terminate \/ shutdown_wait

\* The main thread keeps running while it has a statement to execute, the
\* relay thread likewise, and a server that handles SIGTERM acts on it.
\* Nothing makes the server write or exit on its own, nor a signal arrive.
\* No statement reads environ except the copy at line 39, so the liveness
\* properties are checked from the runs that start with an empty environment.
LiveInit == Init /\ environ = [k \in EnvKeys |-> Absent]

LiveSpec == /\ LiveInit
            /\ [][Next]_vars
            /\ WF_vars(MainStep)
            /\ WF_vars(log_output_line \/ log_output_eof)
            /\ WF_vars(server_term_exit)

\* ======================================================== properties
Finished == pc = "exited"
Failed(p) == Exited(p) /\ proc[p].code # 0
Succeeded(p) == Exited(p) /\ proc[p].code = 0
RelayedLines == SelectSeq(out, LAMBDA m : m.msg = "[SERVER] ")

\* C1: the setup pipeline is a fail-fast chain: build is spawned only after
\* install exited with status 0, the server only after build exited with
\* status 0, and after a failed install or build nothing further is spawned.
C1_FailFastChain ==
    /\ spawns["build"] > 0 => Succeeded("install")
    /\ spawns["server"] > 0 => Succeeded("install") /\ Succeeded("build")
    /\ Failed("install") => spawns["build"] = 0 /\ spawns["server"] = 0
    /\ Failed("build") => spawns["server"] = 0

C1_Witness ==
    /\ Finished
    /\ Succeeded("install")
    /\ Failed("build")
    /\ spawns["server"] = 0

\* C2: when the server exits on its own with a status K # 0 and no
\* interruption signal was delivered, the launcher exits with a non-zero
\* status.
C2_ServerFailureExitsNonZero ==
    (Finished /\ intr = 0 /\ exitVia = "server_exit" /\ Failed("server"))
        => exitCode # 0

\* C3: when the server wrote N lines and exited with status 0 and no signal
\* was delivered, the launcher has relayed exactly those N lines, in order
\* and tagged, by the time it exits, and its exit status is 0.
C3_AllLinesRelayedAtExit ==
    (Finished /\ intr = 0 /\ exitVia = "server_exit" /\ Succeeded("server"))
        => /\ exitCode = 0
           /\ RelayedLines = [i \in 1..Len(written) |-> Relayed(written[i])]

C5_InterruptLeadsToExit ==
    (pc \in HandlerPcs /\ Running("server")) ~> Finished

\* C5 amended: the launcher eventually exits when the server does not
\* ignore the termination request.
C5_InterruptLeadsToExitIfObeyed ==
    (pc \in HandlerPcs /\ Running("server") /\ ~ignoresTerm) ~> Finished

C5_Witness ==
    /\ Finished
    /\ exitVia = "shutdown"
    /\ proc["server"].code = SigTerm
    /\ termReq = {"server"}

\* C6: the environment the server is started with maps PORT to 7860 and
\* NODE_ENV to production whatever the ambient environment holds, and every
\* other variable is the ambient one.
C6_ServerEnvOverrides ==
    spawns["server"] > 0 =>
        /\ srvEnv["PORT"] = "7860"
        /\ srvEnv["NODE_ENV"] = "production"
        /\ \A k \in EnvKeys \ {"PORT", "NODE_ENV"} : srvEnv[k] = environ[k]

C6_Witness ==
    /\ spawns["server"] > 0
    /\ environ["PORT"] = "3000"
    /\ environ["NODE_ENV"] = "development"
    /\ environ["HOME"] = "/root"

\* C7: when the toolchain check fails, the tools named as missing are
\* exactly the tools that cannot be invoked.
C7_ReportedExactlyMissing ==
    exitVia = "toolchain" => reported = {t \in Tools : toolState[t] # "ok"}

\* C8: when node or npm cannot be found or its version query fails, neither
\* install, build nor the server is ever spawned and the launcher's exit
\* status is non-zero.
C8_MissingToolStopsEverything ==
    (\E t \in Tools : toolState[t] # "ok") =>
        /\ spawns["install"] = 0 /\ spawns["build"] = 0 /\ spawns["server"] = 0
        /\ Finished => exitCode # 0

C8_Witness ==
    /\ Finished
    /\ exitVia = "toolchain"
    /\ toolState["node"] = "ok"
    /\ toolState["npm"] = "broken"
    /\ Failed("npm")

ExitsZeroWhenGraceful ==
    /\ exitVia = "shutdown" => exitCode = 0
    /\ (exitVia = "server_exit" /\ Succeeded("server")) => exitCode = 0

\* the command whose failure ended the run, if one ran and failed
FailedCommands ==
    {p \in SetupProcs : Failed(p) /\ proc[p].code \in ExitCodes}

\* C9 as stated: exit status 0 on graceful shutdown and on a normal server
\* exit; on an install or build failure or a missing toolchain a non-zero
\* status that is the failed command's own exit status.
C9_ExitCodeReflectsCommand ==
    /\ ExitsZeroWhenGraceful
    /\ exitVia \in {"toolchain", "install_fail", "build_fail"} =>
           /\ exitCode # 0
           /\ \A p \in FailedCommands : exitCode = proc[p].code

\* C9 amended: on an install or build failure or a missing toolchain the
\* exit status is 1, whatever status the failed command returned.
C9_ExitCodeOneOnSetupFailure ==
    /\ ExitsZeroWhenGraceful
    /\ exitVia \in {"toolchain", "install_fail", "build_fail"} => exitCode = 1

C9_Witness ==
    /\ Finished
    /\ exitVia = "build_fail"
    /\ proc["build"].code = 2
    /\ exitCode = 1

\* C10: the shutdown handler (terminate, then wait) is entered only on an
\* interruption signal and only when the server handle exists; a signal
\* delivered earlier, while the server is being launched, never enters it.
C10_HandlerOnlyFromRunning ==
    [][(pc' \in HandlerPcs /\ pc \notin HandlerPcs)
          => (intr' = intr + 1 /\ process = "server")]_vars

\* ------------------------------------------------ messages by phase
Phases == {"toolchain", "install", "build", "launch"}

\* the message printed before a phase's command is attempted
StatusMsgs(ph) ==
    IF ph = "install" THEN {"Installing Node.js dependencies..."}
    ELSE IF ph = "build" THEN {"Building React application..."}
    ELSE IF ph = "launch" THEN {"Starting Emotional Codex Companion server..."}
    ELSE {}

SuccessMsgs(ph) ==
    IF ph = "install" THEN {"Dependencies installed successfully"}
    ELSE IF ph = "build" THEN {"Application built successfully"}
    ELSE IF ph = "launch" THEN {"Server started successfully on port 7860"}
    ELSE {}

FailureMsgs(ph) ==
    IF ph = "install" THEN {"Failed to install dependencies: "}
    ELSE IF ph = "build" THEN {"Failed to build application: "}
    ELSE IF ph = "launch"
    THEN {"Server error: [Errno 2] No such file or directory: 'npm'",
          "Server error: can't start new thread"}
    ELSE {"Node.js and npm are required but not found"}

Printed(S) == \E i \in 1..Len(out) : out[i].msg \in S

\* the phase's command has been attempted
Attempted(ph) ==
    IF ph = "toolchain" THEN spawns["node"] > 0 \/ exitVia = "toolchain"
    ELSE IF ph = "install" THEN spawns["install"] > 0
    ELSE IF ph = "build" THEN spawns["build"] > 0
    ELSE spawns["server"] > 0 \/ exitVia = "server_error"

\* how the phase ended: "ok", "fail", or "none" while it has not ended or
\* when the run was interrupted inside it
Outcome(ph) ==
    IF ph = "toolchain"
    THEN IF exitVia = "toolchain" THEN "fail"
         ELSE IF Succeeded("node") /\ Succeeded("npm") THEN "ok" ELSE "none"
    ELSE IF ph \in {"install", "build"}
    THEN IF Succeeded(ph) THEN "ok"
         ELSE IF Failed(ph) /\ proc[ph].code \in ExitCodes THEN "fail"
         ELSE "none"
    ELSE IF exitVia = "server_error" THEN "fail"
         ELSE IF pc \in {"s_p65", "s_p66", "s_wait"} \/ exitVia = "server_exit"
         THEN "ok" ELSE "none"

PhaseReports(ph) ==
    /\ Attempted(ph) => Printed(StatusMsgs(ph))
    /\ Outcome(ph) = "ok" => Printed(SuccessMsgs(ph))
    /\ Outcome(ph) = "fail" => Printed(FailureMsgs(ph))

\* a run where build failed: install's success message comes before the
\* build failure message, which names the build command and its status,
\* and no launch message is printed
BuildFailureReport ==
    Outcome("build") = "fail" =>
        /\ \E i, j \in 1..Len(out) :
              /\ i < j
              /\ out[i].msg \in SuccessMsgs("install")
              /\ out[j].msg \in FailureMsgs("build")
              /\ out[j].cmd = <<"npm", "run", "build">>
              /\ out[j].code = proc["build"].code
        /\ ~Printed(StatusMsgs("launch") \cup SuccessMsgs("launch")
                    \cup FailureMsgs("launch"))

\* C11 as stated: each of the four phases, the toolchain check included,
\* prints a status message before its command is attempted and a success or
\* failure message after it; and a failed build is reported as above.
C11_EveryPhaseReports ==
    /\ \A ph \in Phases : PhaseReports(ph)
    /\ BuildFailureReport

\* C11 amended: install, build and launch print a status message before and
\* a success or failure message after their command; the toolchain check
\* prints nothing but a failure message when it fails.
C11_PhasesReportExceptToolchain ==
    /\ \A ph \in Phases \ {"toolchain"} : PhaseReports(ph)
    /\ Outcome("toolchain") = "fail" => Printed(FailureMsgs("toolchain"))
    /\ Outcome("toolchain") = "ok" =>
          (pc = "i_print" => Len(out) = 2)
    /\ BuildFailureReport

C11_Witness ==
    /\ Finished
    /\ exitVia = "build_fail"
    /\ proc["build"].code = 2
    /\ Len(out) = 6

Active == {p \in Procs : Running(p)}

\* C12: in every reachable state at most one spawned external process
\* (version query, install, build or server) is running.
C12_AtMostOneActive == Cardinality(Active) <= 1

C12_Witness ==
    /\ Active = {"build"}
    /\ Exited("node") /\ Exited("npm") /\ Exited("install")

C14_NoRespawn == \A p \in Procs : spawns[p] <= 1

C14_Witness ==
    /\ Finished
    /\ exitVia = "server_exit"
    /\ Failed("server")
    /\ spawns["server"] = 1 /\ spawns["install"] = 1 /\ spawns["build"] = 1

\* the run ended because the server command could not be spawned
LaunchFailed == exitVia = "server_error" /\ spawns["server"] = 0

\* C15: when the server command cannot be spawned the launcher prints an
\* error, exits with a non-zero status, starts no relay thread and never
\* prints the server-started message.
C15_LaunchFailureReported ==
    LaunchFailed =>
        /\ Printed(FailureMsgs("launch"))
        /\ exitCode # 0
        /\ logpc = "none"
        /\ ~Printed(SuccessMsgs("launch"))

C15_Witness ==
    /\ Finished
    /\ LaunchFailed
    /\ Succeeded("build")
    /\ exitCode = 1

\* a line without its line terminator
Chomp(s) == IF s # <<>> /\ s[Len(s)] = "\n" THEN SubSeq(s, 1, Len(s) - 1) ELSE s

\* C16: what the relay writes for the i-th line read is the [SERVER] tag
\* followed by that line's content without its terminator, leading and
\* trailing whitespace included.
C16_RelayKeepsContent ==
    \A i \in 1..Len(RelayedLines) :
        /\ RelayedLines[i].msg = "[SERVER] "
        /\ RelayedLines[i].text = Chomp(written[i])

\* C17: the launcher never exits while the server process it spawned is
\* still running.
C17_NoExitWhileServerRuns == Finished => ~Running("server")
====
